---- MODULE Spec2Model ----
(***************************************************************************)
(* Model of express-supertest-api:                                         *)
(*   - the ApiCall request builder / assertion facade                      *)
(*     (src/tests/api.test.ts, class ApiCall), and                         *)
(*   - the CRUD resource service (src/express-app/app.js, models.js).      *)
(*                                                                         *)
(* Spec      : one ApiCall instance, its configuration and expectation     *)
(*             calls, its terminal calls end()/done() and the transport.   *)
(* SpecBuild : construction with every method argument, and every call     *)
(*             that builds the request.                                    *)
(* SpecPair  : two ApiCall instances used side by side.                    *)
(* SpecCrud  : the service started by start() and its five handlers.       *)
(***************************************************************************)
EXTENDS Integers, Sequences, FiniteSets, TLC

(***************************************************************************)
(* Bounds of the model.                                                    *)
(***************************************************************************)
\* send() calls (setBody/setType/setAccept) made on one request
MaxSends == 2
\* expectStatus() calls made on one request
MaxAsserts == 1
\* done() calls of one instance that await the request's promise at a time
MaxPending == 2
\* HTTP requests the service receives
MaxRequests == 2

(***************************************************************************)
(* Values.                                                                 *)
(***************************************************************************)
FacadeIds == {"A", "B"}

\* enum ApiMethods
ApiMethods == {"GET", "POST", "PATCH", "PUT", "DELETE", "HEAD", "OPTIONS", "TRACE"}

\* a value that is not a member of the enum
OtherMethods == {"CONNECT"}

Endpoints == {"http://127.0.0.1:8080/user"}

HeaderNames == {"X-Id"}
HeaderValues == {"1"}
QueryKeys == {"page"}
QueryValues == {"2"}
BodyValues == {"payload"}
TypeValues == {"json", "form"}
AcceptValues == {"json"}
Statuses == {200, 404}

InvalidMethodError == "Invalid HTTP method provided."
UninitializedError == "Response is undefined. Make sure to call the API call method first."

\* JavaScript values held by this.res and handed between promise handlers
Undefined == [kind |-> "undefined", status |-> 0]
Response(a) == [kind |-> "response", status |-> a]
OtherValue == [kind |-> "other", status |-> 0]

\* errors raised by the transport
NoError == [kind |-> "none", expected |-> 0, actual |-> 0]
TransportError == [kind |-> "transport", expected |-> 0, actual |-> 0]
EndTwiceError == [kind |-> "endTwice", expected |-> 0, actual |-> 0]
MismatchError(s, a) == [kind |-> "expectation", expected |-> s, actual |-> a]

VARIABLES facade, req, net, pending, ret, server, store, http

\* the test client's state, and the service's
client == <<facade, req, net, pending, ret>>
service == <<server, store, http>>
vars == <<client, service>>

(***************************************************************************)
(* State.                                                                  *)
(*   facade[f]  : the fields of ApiCall instance f (and the arguments its  *)
(*                constructor was called with)                             *)
(*   req[f]     : the request descriptor held by this.req                  *)
(*   net[f]     : the transport's view of that request, and the callback   *)
(*                handed to the end() that dispatched it                   *)
(*   pending[f] : the done() calls of f suspended at their await           *)
(*   ret        : the last result a caller observed: a value returned, an  *)
(*                error thrown, or a done() settled                        *)
(***************************************************************************)
NoFacade ==
    [constructed |-> "none", endpointArg |-> "", methodArg |-> "",
     error |-> "", endpoint |-> "", res |-> Undefined]

NoPromise == [state |-> "none", value |-> Undefined, error |-> NoError]

NoRequest ==
    [method |-> "", header |-> {}, qs |-> {}, data |-> <<>>, asserts |-> <<>>,
     endCalled |-> FALSE, promise |-> NoPromise]

NoTransport ==
    [state |-> "idle", sent |-> 0, dispatcher |-> "none", outcome |-> Undefined,
     checked |-> <<>>, cbCount |-> 0, cbErr |-> NoError, cbRes |-> Undefined]

Result(f, op, kind) ==
    [callee |-> f, op |-> op, kind |-> kind, who |-> "",
     onfulfilled |-> "none", onrejected |-> "none",
     value |-> Undefined, error |-> NoError]

NoReturn == Result("", "none", "none")

InitClient ==
    /\ facade = [f \in FacadeIds |-> NoFacade]
    /\ req = [f \in FacadeIds |-> NoRequest]
    /\ net = [f \in FacadeIds |-> NoTransport]
    /\ pending = [f \in FacadeIds |-> <<>>]
    /\ ret = NoReturn

(***************************************************************************)
(* Construction.                                                           *)
(***************************************************************************)
\* ApiCall.getTest: the switch over the method; the second POST arm is the
\* one that calls this._agent.patch('').
getTest(method) ==
    IF method = "GET" THEN [ok |-> TRUE, method |-> "GET"]
    ELSE IF method = "POST" THEN [ok |-> TRUE, method |-> "POST"]
    ELSE IF method = "POST" THEN [ok |-> TRUE, method |-> "PATCH"]
    ELSE IF method = "PUT" THEN [ok |-> TRUE, method |-> "PUT"]
    ELSE IF method = "DELETE" THEN [ok |-> TRUE, method |-> "DELETE"]
    ELSE IF method = "HEAD" THEN [ok |-> TRUE, method |-> "HEAD"]
    ELSE IF method = "OPTIONS" THEN [ok |-> TRUE, method |-> "OPTIONS"]
    ELSE IF method = "TRACE" THEN [ok |-> TRUE, method |-> "TRACE"]
    ELSE [ok |-> FALSE, method |-> ""]

\* new ApiCall(endpoint, method)
Constructor(f, endpoint, method) ==
    /\ facade[f].constructed = "none"
    /\ LET t == getTest(method) IN
       /\ facade' = [facade EXCEPT ![f] =
              [constructed |-> IF t.ok THEN "ok" ELSE "failed",
               endpointArg |-> endpoint,
               methodArg |-> method,
               error |-> IF t.ok THEN "" ELSE InvalidMethodError,
               endpoint |-> endpoint,
               res |-> Undefined]]
       /\ req' = [req EXCEPT ![f].method = t.method]
       /\ ret' = IF t.ok
                 THEN [Result(f, "new", "new") EXCEPT !.who = f]
                 ELSE Result(f, "new", "throw")
    /\ UNCHANGED <<net, pending, service>>

(***************************************************************************)
(* Configuration and expectation calls: one mutation of this.req, then     *)
(* `return this`.                                                          *)
(***************************************************************************)
Usable(f) == facade[f].constructed = "ok"

\* a chained call that hands back another instance than the one called
ReturnOther(f) ==
    [Result(f, "chain", "this") EXCEPT !.who = CHOOSE g \in FacadeIds : g # f]

\* `return this`
ReturnThis(f) == [Result(f, "chain", "this") EXCEPT !.who = f]

\* Object.assign(target, update) on maps held as sets of <<name, value>>
Merge(target, update) ==
    {p \in target : ~ \E q \in update : q[1] = p[1]} \cup update

\* this.req.send(value): the values handed to send(), in call order
send(r, value) == [r EXCEPT !.data = Append(r.data, value)]

\* a setHeader on a request that every instance shares
setHeaderShared(f, key, value) ==
    /\ Usable(f)
    /\ req' = [g \in FacadeIds |->
                  [req[g] EXCEPT !.header = Merge(@, {<<key, value>>})]]
    /\ ret' = ReturnThis(f)
    /\ UNCHANGED <<facade, net, pending, service>>

setHeader(f, key, value) ==
    /\ Usable(f)
    /\ req' = [req EXCEPT ![f].header = Merge(@, {<<key, value>>})]
    /\ ret' = ReturnThis(f)
    /\ UNCHANGED <<facade, net, pending, service>>

unsetHeader(f, key) ==
    /\ Usable(f)
    /\ req' = [req EXCEPT ![f].header = {p \in @ : p[1] # key}]
    /\ ret' = ReturnThis(f)
    /\ UNCHANGED <<facade, net, pending, service>>

\* this.req.query({ key, value }): an object with the two properties
\* named "key" and "value"
setQueryParam(f, key, value) ==
    /\ Usable(f)
    /\ req' = [req EXCEPT ![f].qs = Merge(@, {<<"key", key>>, <<"value", value>>})]
    /\ ret' = ReturnThis(f)
    /\ UNCHANGED <<facade, net, pending, service>>

setQueryParams(f, query) ==
    /\ Usable(f)
    /\ req' = [req EXCEPT ![f].qs = Merge(@, query)]
    /\ ret' = ReturnThis(f)
    /\ UNCHANGED <<facade, net, pending, service>>

setBody(f, body) ==
    /\ Usable(f)
    /\ Len(req[f].data) < MaxSends
    /\ req' = [req EXCEPT ![f] = send(@, body)]
    /\ ret' = ReturnThis(f)
    /\ UNCHANGED <<facade, net, pending, service>>

setType(f, type) ==
    /\ Usable(f)
    /\ Len(req[f].data) < MaxSends
    /\ req' = [req EXCEPT ![f] = send(@, type)]
    /\ ret' = ReturnThis(f)
    /\ UNCHANGED <<facade, net, pending, service>>

setAccept(f, type) ==
    /\ Usable(f)
    /\ Len(req[f].data) < MaxSends
    /\ req' = [req EXCEPT ![f] = send(@, type)]
    /\ ret' = ReturnThis(f)
    /\ UNCHANGED <<facade, net, pending, service>>

expectStatus(f, status) ==
    /\ Usable(f)
    /\ Len(req[f].asserts) < MaxAsserts
    /\ req' = [req EXCEPT ![f].asserts = Append(@, status)]
    /\ ret' = [ReturnThis(f) EXCEPT !.op = "expectStatus",
                                    !.value = [kind |-> "status", status |-> status]]
    /\ UNCHANGED <<facade, net, pending, service>>

(***************************************************************************)
(* Terminal calls and the transport.                                       *)
(***************************************************************************)
\* the request goes out on the network, on behalf of `who`: the end() the
\* caller made, or the promise made by then()
Dispatch(n, who) == [n EXCEPT !.state = "inflight", !.sent = @ + 1, !.dispatcher = who]

\* an end() that hands back what this.req.end(callback) returns
endReturnsRequest(f) ==
    /\ Usable(f)
    /\ IF req[f].endCalled
       THEN /\ ret' = [Result(f, "end", "throw") EXCEPT !.error = EndTwiceError]
            /\ UNCHANGED <<req, net>>
       ELSE /\ req' = [req EXCEPT ![f].endCalled = TRUE]
            /\ net' = [net EXCEPT ![f] = Dispatch(@, "end")]
            /\ ret' = Result(f, "end", "request")
    /\ UNCHANGED <<facade, pending, service>>

\* end(callback): this.req.end(callback); a request whose end() has already
\* run refuses a second one by throwing, and never takes its callback
end(f) ==
    /\ Usable(f)
    /\ IF req[f].endCalled
       THEN /\ ret' = [Result(f, "end", "throw") EXCEPT !.error = EndTwiceError]
            /\ UNCHANGED <<req, net>>
       ELSE /\ req' = [req EXCEPT ![f].endCalled = TRUE]
            /\ net' = [net EXCEPT ![f] = Dispatch(@, "end")]
            /\ ret' = Result(f, "end", "void")
    /\ UNCHANGED <<facade, pending, service>>

\* done(onfulfilled, onrejected), up to its await: this.req.then(...) makes
\* the request's promise on first use (dispatching through end()) and
\* chains the two handlers on it
done(f, onfulfilled, onrejected) ==
    /\ Usable(f)
    /\ Len(pending[f]) < MaxPending
    /\ IF req[f].promise.state = "none"
       THEN IF req[f].endCalled
            THEN /\ req' = [req EXCEPT ![f].promise =
                        [state |-> "rejected", value |-> Undefined,
                         error |-> EndTwiceError]]
                 /\ UNCHANGED net
            ELSE /\ req' = [req EXCEPT ![f].endCalled = TRUE,
                                       ![f].promise.state = "pending"]
                 /\ net' = [net EXCEPT ![f] = Dispatch(@, "then")]
       ELSE UNCHANGED <<req, net>>
    /\ pending' = [pending EXCEPT ![f] =
           Append(@, [onfulfilled |-> onfulfilled, onrejected |-> onrejected])]
    /\ UNCHANGED <<facade, ret, service>>

\* the checks registered with expect(), run against the transport's outcome:
\* no response is the transport's error, otherwise the first failing check
assert(outcome, asserts) ==
    IF outcome.kind # "response" THEN TransportError
    ELSE IF \E i \in 1..Len(asserts) : asserts[i] # outcome.status
         THEN LET i == CHOOSE j \in 1..Len(asserts) :
                           /\ asserts[j] # outcome.status
                           /\ \A k \in 1..(j - 1) : asserts[k] = outcome.status
              IN MismatchError(asserts[i], outcome.status)
         ELSE NoError

\* a completion that also keeps, for end(), the response it hands to the
\* callback
TransportCompleteStores(f, outcome) ==
    /\ net[f].state = "inflight"
    /\ LET err == assert(outcome, req[f].asserts) IN
       IF net[f].dispatcher = "then"
       THEN /\ req' = [req EXCEPT ![f].promise =
                   IF err = NoError
                   THEN [state |-> "fulfilled", value |-> outcome, error |-> NoError]
                   ELSE [state |-> "rejected", value |-> Undefined, error |-> err]]
            /\ net' = [net EXCEPT ![f].state = "completed",
                                  ![f].outcome = outcome,
                                  ![f].checked = req[f].asserts]
            /\ UNCHANGED facade
       ELSE /\ net' = [net EXCEPT ![f].state = "completed",
                                  ![f].outcome = outcome,
                                  ![f].checked = req[f].asserts,
                                  ![f].cbCount = @ + 1,
                                  ![f].cbErr = err,
                                  ![f].cbRes = outcome]
            /\ facade' = [facade EXCEPT ![f].res = outcome]
            /\ UNCHANGED req
    /\ UNCHANGED <<pending, ret, service>>

\* the transport finishes the request in flight with `outcome` (a response,
\* or Undefined when there is none) and reports to whoever dispatched it:
\* the callback of end(), or the request's promise
TransportComplete(f, outcome) ==
    /\ net[f].state = "inflight"
    /\ LET err == assert(outcome, req[f].asserts) IN
       IF net[f].dispatcher = "then"
       THEN /\ req' = [req EXCEPT ![f].promise =
                   IF err = NoError
                   THEN [state |-> "fulfilled", value |-> outcome, error |-> NoError]
                   ELSE [state |-> "rejected", value |-> Undefined, error |-> err]]
            /\ net' = [net EXCEPT ![f].state = "completed",
                                  ![f].outcome = outcome,
                                  ![f].checked = req[f].asserts]
       ELSE /\ net' = [net EXCEPT ![f].state = "completed",
                                  ![f].outcome = outcome,
                                  ![f].checked = req[f].asserts,
                                  ![f].cbCount = @ + 1,
                                  ![f].cbErr = err,
                                  ![f].cbRes = outcome]
            /\ UNCHANGED req
    /\ UNCHANGED <<facade, pending, ret, service>>

\* what then(onfulfilled, onrejected) settles to once the request's promise
\* has settled: a handler's return value replaces the promise's own
thenResult(p, onfulfilled, onrejected) ==
    IF p.state = "fulfilled"
    THEN [kind |-> "resolved",
          value |-> IF onfulfilled = "none" THEN p.value ELSE OtherValue,
          error |-> NoError]
    ELSE IF onrejected = "none"
         THEN [kind |-> "rejected", value |-> Undefined, error |-> p.error]
         ELSE [kind |-> "resolved", value |-> Undefined, error |-> NoError]

\* A sequence without its i-th element
Without(s, i) == [j \in 1..(Len(s) - 1) |-> IF j < i THEN s[j] ELSE s[j + 1]]

\* a done() whose catch block does not rethrow
doneResumeSwallows(f, i) ==
    /\ i \in 1..Len(pending[f])
    /\ req[f].promise.state \in {"fulfilled", "rejected"}
    /\ LET c == pending[f][i]
           r == thenResult(req[f].promise, c.onfulfilled, c.onrejected)
       IN /\ facade' = [facade EXCEPT ![f].res =
                 IF r.kind = "resolved" THEN r.value ELSE @]
          /\ ret' = [Result(f, "done", "resolved") EXCEPT
                 !.onfulfilled = c.onfulfilled,
                 !.onrejected = c.onrejected,
                 !.value = facade'[f].res]
    /\ pending' = [pending EXCEPT ![f] = Without(@, i)]
    /\ UNCHANGED <<req, net, service>>

\* a done() whose catch block keeps the response that came with the error
doneResumeStores(f, i) ==
    /\ i \in 1..Len(pending[f])
    /\ req[f].promise.state \in {"fulfilled", "rejected"}
    /\ LET c == pending[f][i]
           r == thenResult(req[f].promise, c.onfulfilled, c.onrejected)
       IN /\ facade' = [facade EXCEPT ![f].res =
                 IF r.kind = "resolved" THEN r.value ELSE net[f].outcome]
          /\ ret' = [Result(f, "done", r.kind) EXCEPT
                 !.onfulfilled = c.onfulfilled,
                 !.onrejected = c.onrejected,
                 !.value = IF r.kind = "resolved" THEN facade'[f].res ELSE Undefined,
                 !.error = r.error]
    /\ pending' = [pending EXCEPT ![f] = Without(@, i)]
    /\ UNCHANGED <<req, net, service>>

\* done() after its await: this.res = <what then() settled to>; return
\* this.res - or rethrow what it rejected with
doneResume(f, i) ==
    /\ i \in 1..Len(pending[f])
    /\ req[f].promise.state \in {"fulfilled", "rejected"}
    /\ LET c == pending[f][i]
           r == thenResult(req[f].promise, c.onfulfilled, c.onrejected)
       IN /\ facade' = [facade EXCEPT ![f].res =
                 IF r.kind = "resolved" THEN r.value ELSE @]
          /\ ret' = [Result(f, "done", r.kind) EXCEPT
                 !.onfulfilled = c.onfulfilled,
                 !.onrejected = c.onrejected,
                 !.value = IF r.kind = "resolved" THEN facade'[f].res ELSE Undefined,
                 !.error = r.error]
    /\ pending' = [pending EXCEPT ![f] = Without(@, i)]
    /\ UNCHANGED <<req, net, service>>

(***************************************************************************)
(* Response accessors: pure reads of this.res.                             *)
(***************************************************************************)
GuardedAccessors ==
    {"getResponseText", "getResponseBody", "getResponseHeaders",
     "getResponseHeader", "getResponseContentType", "getResponseStatusCode",
     "clientErrorResponse", "serverErrorResponse", "okResponse",
     "unAuthorizedResponse", "getXHR", "pipeResponseToFile"}

Accessors == GuardedAccessors \cup {"getRawResponse"}

\* if (this.res): undefined is the only falsy value this.res takes here
Truthy(v) == v.kind # "undefined"

\* the property of `v` an accessor reads; a value that is no response has
\* none of them
Property(name, v) ==
    IF v.kind = "response" THEN [kind |-> name, status |-> v.status] ELSE Undefined

\* getXHR without its guard
AccessorUnguarded(name, res) ==
    IF name \in {"getRawResponse", "getXHR"}
    THEN [outcome |-> "return", error |-> "", value |-> res]
    ELSE IF Truthy(res)
         THEN [outcome |-> "return", error |-> "", value |-> Property(name, res)]
         ELSE [outcome |-> "throw", error |-> UninitializedError, value |-> Undefined]

Accessor(name, res) ==
    IF name = "getRawResponse"
    THEN [outcome |-> "return", error |-> "", value |-> res]
    ELSE IF Truthy(res)
         THEN [outcome |-> "return", error |-> "", value |-> Property(name, res)]
         ELSE [outcome |-> "throw", error |-> UninitializedError, value |-> Undefined]

(***************************************************************************)
(* The CRUD resource service.                                              *)
(*   server  : the process started by start()                              *)
(*   store   : the users collection, in insertion order                    *)
(*   http[r] : request r and the handler invocation serving it             *)
(***************************************************************************)
Absent == "absent"

\* req.body of POST and PUT: the four schema paths, each given or absent
NoBody == [name |-> Absent, job |-> Absent, age |-> Absent, isMarried |-> Absent]

Bodies ==
    {[name |-> "A", job |-> "B", age |-> "30", isMarried |-> Absent],
     [name |-> "C", job |-> "D", age |-> "40", isMarried |-> "false"],
     [name |-> "E", job |-> Absent, age |-> "50", isMarried |-> Absent]}

\* identity keys, in the order new User() hands them out
ObjectIds == <<"65f0", "65f1">>

\* a well-formed identity key no document carries
UnknownIds == {"ffff"}

\* the documents the collection holds from earlier runs of the service: the
\* store is a database outside the process and outlives it
PersistedDocs ==
    <<[id |-> "64a0", name |-> "P", job |-> "Q", age |-> "20", isMarried |-> "true"],
      [id |-> "64a1", name |-> "R", job |-> "S", age |-> "21", isMarried |-> "false"]>>

Stores == {<<>>, PersistedDocs}

ParamIds ==
    {ObjectIds[i] : i \in 1..Len(ObjectIds)}
        \cup {PersistedDocs[i].id : i \in 1..Len(PersistedDocs)}
        \cup UnknownIds

NoDoc == [id |-> "", name |-> Absent, job |-> Absent, age |-> Absent, isMarried |-> Absent]

NoResponse == [status |-> 0, kind |-> "none", docs |-> <<>>]

NoHttp ==
    [pc |-> "idle", route |-> "", id |-> "", body |-> NoBody, doc |-> NoDoc,
     error |-> "", before |-> <<>>, response |-> NoResponse]

InitService ==
    /\ server = [listening |-> FALSE, connected |-> FALSE, exited |-> FALSE, created |-> 0]
    /\ store = <<>>
    /\ http = [r \in 1..MaxRequests |-> NoHttp]

Init == InitClient /\ InitService

\* the service started against a collection that may hold documents
InitCrud ==
    /\ InitClient
    /\ server = [listening |-> FALSE, connected |-> FALSE, exited |-> FALSE, created |-> 0]
    /\ store \in Stores
    /\ http = [r \in 1..MaxRequests |-> NoHttp]

\* start(): the call of mongoose.connect is commented out, so the process
\* listens without ever opening a store connection
start ==
    /\ ~server.listening
    /\ ~server.exited
    /\ server' = [server EXCEPT !.listening = TRUE]
    /\ UNCHANGED <<store, http, client>>

\* UserSchema: the three required paths
Valid(doc) == doc.name # Absent /\ doc.job # Absent /\ doc.age # Absent

\* new User({ ...req.body }): the schema's paths of the body, the default of
\* isMarried, and a fresh identity key
NewUser(body, id) ==
    [id |-> id, name |-> body.name, job |-> body.job, age |-> body.age,
     isMarried |-> IF body.isMarried = Absent THEN "true" ELSE body.isMarried]

\* the positions of the documents whose identity key is `id`
Positions(st, id) == {i \in 1..Len(st) : st[i].id = id}

\* User.findById(id): the document, or null
findById(st, id) ==
    IF Positions(st, id) = {}
    THEN [kind |-> "null", docs |-> <<>>]
    ELSE [kind |-> "doc", docs |-> <<st[CHOOSE i \in Positions(st, id) : TRUE]>>]

\* $set of the paths the body gives
Updated(doc, body) ==
    [id |-> doc.id,
     name |-> IF body.name = Absent THEN doc.name ELSE body.name,
     job |-> IF body.job = Absent THEN doc.job ELSE body.job,
     age |-> IF body.age = Absent THEN doc.age ELSE body.age,
     isMarried |-> IF body.isMarried = Absent THEN doc.isMarried ELSE body.isMarried]

\* User.updateOne({ id }, body): the filter names the path `id`, which the
\* schema does not have.  A mapper that passes the filter on matches no
\* document (none stores an `id` field); one that strips unknown paths is
\* left with the empty filter, which matches the first document.
updateOne(st, id, body) ==
    {st} \cup (IF st = <<>> THEN {} ELSE {[st EXCEPT ![1] = Updated(@, body)]})

\* User.findByIdAndDelete(id): the collection without the document
Deleted(st, id) ==
    LET keep == {i \in 1..Len(st) : st[i].id # id}
        nth[k \in 0..Len(st)] ==
            IF k = 0 THEN <<>>
            ELSE IF k \in keep THEN Append(nth[k - 1], st[k]) ELSE nth[k - 1]
    IN nth[Len(st)]

Serving == server.listening /\ ~server.exited

Accept(r, route, id, body, pc) ==
    [http EXCEPT ![r] = [NoHttp EXCEPT !.pc = pc, !.route = route, !.id = id,
                                       !.body = body, !.before = store]]

\* app.get("/users"), up to its await
getUsers(r) ==
    /\ Serving
    /\ http[r].pc = "idle"
    /\ http' = Accept(r, "GET /users", "", NoBody, "find")
    /\ UNCHANGED <<server, store, client>>

\* app.get("/users/:id"), up to its await
getUser(r, id) ==
    /\ Serving
    /\ http[r].pc = "idle"
    /\ http' = Accept(r, "GET /users/:id", id, NoBody, "findById")
    /\ UNCHANGED <<server, store, client>>

\* app.post("/users"), up to its await
postUser(r, body) ==
    /\ Serving
    /\ http[r].pc = "idle"
    /\ server.created < Len(ObjectIds)
    /\ server' = [server EXCEPT !.created = @ + 1]
    /\ http' = [Accept(r, "POST /users", "", body, "save") EXCEPT
                   ![r].doc = NewUser(body, ObjectIds[server.created + 1])]
    /\ UNCHANGED <<store, client>>

\* app.put("/users/:id"), up to its first await
putUser(r, id, body) ==
    /\ Serving
    /\ http[r].pc = "idle"
    /\ http' = Accept(r, "PUT /users/:id", id, body, "updateOne")
    /\ UNCHANGED <<server, store, client>>

\* app.delete("/users/:id"), up to its await
deleteUser(r, id) ==
    /\ Serving
    /\ http[r].pc = "idle"
    /\ http' = Accept(r, "DELETE /users/:id", id, NoBody, "findByIdAndDelete")
    /\ UNCHANGED <<server, store, client>>

\* res.status(status).json(value)
Respond(r, status, value) ==
    [http EXCEPT ![r].pc = "done",
                 ![r].response = [status |-> status, kind |-> value.kind,
                                  docs |-> value.docs]]

\* the awaited promise rejects: the async handler rejects with it
Reject(r, error) == [http EXCEPT ![r].pc = "rejected", ![r].error = error]

BufferingTimedOut == "buffering timed out"
ValidationFailed == "validation failed"

\* the store operation a handler awaits settles, and the handler runs on to
\* its next await or to its response.  Without a connection the mapper
\* holds every operation back until it times out; save() validates first.
storeSettles(r) ==
    /\ ~server.exited
    /\ http[r].pc \in {"find", "findById", "save", "updateOne", "updated",
                       "findByIdAndDelete"}
    /\ LET q == http[r] IN
       IF q.pc = "save" /\ ~Valid(q.doc)
       THEN http' = Reject(r, ValidationFailed) /\ UNCHANGED store
       ELSE IF ~server.connected
       THEN http' = Reject(r, BufferingTimedOut) /\ UNCHANGED store
       ELSE IF q.pc = "find"
       THEN http' = Respond(r, 200, [kind |-> "array", docs |-> store])
            /\ UNCHANGED store
       ELSE IF q.pc \in {"findById", "updated"}
       THEN http' = Respond(r, 200, findById(store, q.id)) /\ UNCHANGED store
       ELSE IF q.pc = "save"
       THEN /\ store' = Append(store, q.doc)
            /\ http' = Respond(r, 201, [kind |-> "doc", docs |-> <<q.doc>>])
       ELSE IF q.pc = "updateOne"
       THEN /\ store' \in updateOne(store, q.id, q.body)
            /\ http' = [http EXCEPT ![r].pc = "updated"]
       ELSE /\ store' = Deleted(store, q.id)
            /\ http' = Respond(r, 200, findById(store, q.id))
    /\ UNCHANGED <<server, client>>

\* a handler's rejected promise is caught by nothing in app.js: a framework
\* that forwards it answers with its default error response; one that does
\* not leaves the request unanswered, and the runtime either reports the
\* unhandled rejection or ends the process on it
ErrorPaths == {"errorResponse", "unanswered", "exit"}

handlerRejected(r, path) ==
    /\ ~server.exited
    /\ http[r].pc = "rejected"
    /\ IF path = "errorResponse"
       THEN /\ http' = [http EXCEPT ![r].pc = "done",
                   ![r].response = [status |-> 500, kind |-> "error", docs |-> <<>>]]
            /\ UNCHANGED server
       ELSE /\ http' = [http EXCEPT ![r].pc = "unanswered"]
            /\ server' = [server EXCEPT !.exited = (path = "exit")]
    /\ UNCHANGED <<store, client>>

NextCrud ==
    \/ start
    \/ \E r \in 1..MaxRequests :
        \/ getUsers(r)
        \/ \E id \in ParamIds : getUser(r, id)
        \/ \E body \in Bodies : postUser(r, body)
        \/ \E id \in ParamIds, body \in Bodies : putUser(r, id, body)
        \/ \E id \in ParamIds : deleteUser(r, id)
        \/ storeSettles(r)
        \/ \E path \in ErrorPaths : handlerRejected(r, path)

SpecCrud == InitCrud /\ [][NextCrud]_vars

(***************************************************************************)
(* Specifications of the facade.                                           *)
(***************************************************************************)
Active == {"A"}

QueryObjects == {{<<k, v>>} : k \in QueryKeys, v \in QueryValues}

Outcomes == {Response(a) : a \in Statuses} \cup {Undefined}

OnFulfilled == {"none", "other"}
OnRejected == {"none", "swallow"}

Headers(f) ==
    \/ \E k \in HeaderNames, v \in HeaderValues : setHeader(f, k, v)
    \/ \E k \in HeaderNames : unsetHeader(f, k)

Query(f) ==
    \/ \E k \in QueryKeys, v \in QueryValues : setQueryParam(f, k, v)
    \/ \E q \in QueryObjects : setQueryParams(f, q)

Body(f) ==
    \/ \E b \in BodyValues : setBody(f, b)
    \/ \E t \in TypeValues : setType(f, t)
    \/ \E t \in AcceptValues : setAccept(f, t)

Expect(f) == \E s \in Statuses : expectStatus(f, s)

\* every member of the enum, and a value outside it
MethodArgs == ApiMethods \cup OtherMethods

\* the arguments tried where the method is not what is looked at
SampleMethodArgs == {"GET", "POST", "PATCH", "CONNECT"}

Construct(f, methods) ==
    \E e \in Endpoints, m \in methods : Constructor(f, e, m)

Terminal(f) ==
    \/ end(f)
    \/ \E h \in OnFulfilled, r \in OnRejected : done(f, h, r)
    \/ \E i \in 1..MaxPending : doneResume(f, i)
    \/ \E o \in Outcomes : TransportComplete(f, o)

\* one instance from construction to its terminal calls
Next ==
    \E f \in Active :
        \/ Construct(f, SampleMethodArgs)
        \/ Headers(f)
        \/ Expect(f)
        \/ Terminal(f)

Spec == Init /\ [][Next]_vars

\* one instance and every call that builds its request
NextBuild ==
    \E f \in Active :
        \/ Construct(f, MethodArgs)
        \/ Headers(f)
        \/ Query(f)
        \/ Body(f)
        \/ Expect(f)

SpecBuild == Init /\ [][NextBuild]_vars

\* the methods the two instances of SpecPair are constructed with
PairMethodArgs == {"GET"}

\* two instances, their calls interleaved in any order; each registers one
\* expectation at most and has one done() awaiting at a time
NextPair ==
    \E f \in FacadeIds :
        \/ Construct(f, PairMethodArgs)
        \/ \E k \in HeaderNames, v \in HeaderValues : setHeader(f, k, v)
        \/ req[f].asserts = <<>> /\ Expect(f)
        \/ end(f)
        \/ pending[f] = <<>> /\ done(f, "none", "none")
        \/ doneResume(f, Len(pending[f]))
        \/ \E o \in Outcomes : TransportComplete(f, o)

SpecPair == Init /\ [][NextPair]_vars

(***************************************************************************)
(* The claims.                                                             *)
(***************************************************************************)
Threw(name, res) ==
    /\ Accessor(name, res).outcome = "throw"
    /\ Accessor(name, res).error = UninitializedError

\* C1 (checked under SpecBuild): constructing with any of the eight members
\* of ApiMethods succeeds and yields a request of that method; constructing
\* with any other value fails with 'Invalid HTTP method provided.'
C1_EveryEnumMethodConstructs ==
    \A f \in FacadeIds :
        facade[f].constructed # "none" =>
            IF facade[f].methodArg \in ApiMethods
            THEN /\ facade[f].constructed = "ok"
                 /\ req[f].method = facade[f].methodArg
            ELSE /\ facade[f].constructed = "failed"
                 /\ facade[f].error = InvalidMethodError

\* C2 as stated: before the transport has completed the request, every one
\* of the thirteen response accessors, getRawResponse among them, fails
\* with the uninitialized-response error.
C2_EveryAccessorThrows ==
    \A f \in FacadeIds :
        Usable(f) /\ net[f].state # "completed" =>
            \A a \in Accessors : Threw(a, facade[f].res)

\* C2 as amended: before the transport has completed the request, every
\* response accessor other than getRawResponse fails with the
\* uninitialized-response error, and getRawResponse returns undefined.
C2_GuardedAccessorsThrow ==
    \A f \in FacadeIds :
        Usable(f) /\ net[f].state # "completed" =>
            /\ \A a \in GuardedAccessors : Threw(a, facade[f].res)
            /\ Accessor("getRawResponse", facade[f].res).outcome = "return"
            /\ Accessor("getRawResponse", facade[f].res).value = Undefined

\* C2 witness: expectations and headers set, the request dispatched by
\* done() and still in flight.
C2_Witness ==
    /\ Usable("A")
    /\ req["A"].asserts # <<>>
    /\ req["A"].header # {}
    /\ net["A"].state = "inflight"
    /\ pending["A"] # <<>>

\* C3: whenever a done() resolves after the transport produced a response,
\* whatever its handlers, this.res is the transport's response, done()
\* returned it, and getResponseStatusCode() is the transport's status.
C3_DoneStoresTransportResponse ==
    \A f \in FacadeIds :
        /\ ret.callee = f
        /\ ret.op = "done"
        /\ ret.kind = "resolved"
        /\ net[f].state = "completed"
        /\ net[f].outcome.kind = "response"
        => /\ facade[f].res = net[f].outcome
           /\ ret.value = net[f].outcome
           /\ Accessor("getResponseStatusCode", facade[f].res).outcome = "return"
           /\ Accessor("getResponseStatusCode", facade[f].res).value.status
                  = net[f].outcome.status

\* the expectations the transport evaluated, as a set
Checked(f) == {net[f].checked[i] : i \in 1..Len(net[f].checked)}

\* C4: expectStatus(s) registers s; a done() without handlers that
\* dispatched the request, whose transport answered with status a, resolves
\* with the response when every registered status equals a and rejects with
\* an expectation mismatch (expected s, got a) when a registered s differs.
C4_ExpectStatusDecidesDone ==
    \A f \in FacadeIds :
        /\ (ret.callee = f /\ ret.op = "expectStatus" =>
               /\ req[f].asserts # <<>>
               /\ req[f].asserts[Len(req[f].asserts)] = ret.value.status)
        /\ (/\ ret.callee = f
            /\ ret.op = "done"
            /\ ret.onfulfilled = "none"
            /\ ret.onrejected = "none"
            /\ net[f].dispatcher = "then"
            /\ net[f].outcome.kind = "response"
            => LET a == net[f].outcome.status IN
               IF \A s \in Checked(f) : s = a
               THEN /\ ret.kind = "resolved"
                    /\ ret.value = Response(a)
               ELSE /\ ret.kind = "rejected"
                    /\ ret.error.kind = "expectation"
                    /\ ret.error.actual = a
                    /\ ret.error.expected \in Checked(f) \ {a})

\* C4 witness: expectStatus(404) against a 200 response: done() rejected.
C4_Witness ==
    /\ ret.callee = "A"
    /\ ret.op = "done"
    /\ ret.onfulfilled = "none"
    /\ ret.onrejected = "none"
    /\ net["A"].dispatcher = "then"
    /\ net["A"].outcome = Response(200)
    /\ net["A"].checked = <<404>>
    /\ ret.kind = "rejected"

\* the error the request's promise rejects with
RejectionOf(f) ==
    IF net[f].dispatcher = "then"
    THEN assert(net[f].outcome, net[f].checked)
    ELSE EndTwiceError

Rejected(f) == req[f].promise.state = "rejected"

C7_OneResolutionPerInstance ==
    [][\A f \in FacadeIds :
           /\ net'[f].sent <= 1
           /\ (facade[f].res # Undefined => facade'[f].res = facade[f].res)]_vars

\* C8: after any sequence of calls the instance targets the endpoint and
\* the method it was constructed with, and every configuration or
\* expectation call returned the instance it was called on.
C8_EndpointAndMethodFixed ==
    /\ \A f \in FacadeIds :
           Usable(f) =>
               /\ facade[f].endpoint = facade[f].endpointArg
               /\ req[f].method = facade[f].methodArg
    /\ (ret.kind = "this" => ret.who = ret.callee)

\* C8 witness: a configuration call made after done() has stored a response.
C8_Witness ==
    /\ Usable("A")
    /\ facade["A"].res.kind = "response"
    /\ ret.kind = "this"
    /\ ret.op = "chain"
    /\ req["A"].header # {}

\* a request the service is done with: answered, or left unanswered
Finished(r) == http[r].pc \in {"done", "unanswered"}

\* C9: POST /users with name, job and age and no isMarried is answered 201
\* with the stored record - an identity key, the submitted values and
\* isMarried = true - and the store holds that one record more.
C9_PostCreatesUser ==
    \A r \in 1..MaxRequests :
        /\ http[r].route = "POST /users"
        /\ Valid(http[r].doc)
        /\ http[r].body.isMarried = Absent
        /\ Finished(r)
        => /\ http[r].response.status = 201
           /\ http[r].response.kind = "doc"
           /\ http[r].response.docs = <<http[r].doc>>
           /\ http[r].doc.id # ""
           /\ http[r].doc.name = http[r].body.name
           /\ http[r].doc.job = http[r].body.job
           /\ http[r].doc.age = http[r].body.age
           /\ http[r].doc.isMarried = "true"
           /\ Positions(store, http[r].doc.id) # {}
           /\ Positions(http[r].before, http[r].doc.id) = {}

\* C10: GET, PUT and DELETE /users/:id for an id that matches no stored
\* record are answered 200 with a null body, and leave the store as it was.
C10_UnknownIdAnswersNull ==
    \A r \in 1..MaxRequests :
        /\ http[r].route \in {"GET /users/:id", "PUT /users/:id", "DELETE /users/:id"}
        /\ Positions(http[r].before, http[r].id) = {}
        /\ Finished(r)
        => /\ http[r].response.status = 200
           /\ http[r].response.kind = "null"
           /\ store = http[r].before

\* the requests other than r that write to the store
Writers(r) ==
    {q \in 1..MaxRequests \ {r} :
        http[q].route \in {"POST /users", "PUT /users/:id", "DELETE /users/:id"}}

\* C11: PUT /users/:id for a stored record is answered 200 with that record
\* as updated with the request body; the store then holds the updated
\* record under :id and, no other request writing, every other record as
\* it was.
C11_PutUpdatesRecord ==
    \A r \in 1..MaxRequests :
        /\ http[r].route = "PUT /users/:id"
        /\ Positions(http[r].before, http[r].id) # {}
        /\ Writers(r) = {}
        /\ Finished(r)
        => LET i == CHOOSE j \in Positions(http[r].before, http[r].id) : TRUE
               after == Updated(http[r].before[i], http[r].body)
           IN /\ http[r].response.status = 200
              /\ http[r].response.kind = "doc"
              /\ http[r].response.docs = <<after>>
              /\ Len(store) = Len(http[r].before)
              /\ store[i] = after
              /\ \A j \in 1..Len(store) : j # i => store[j] = http[r].before[j]

\* everything instance f holds
Instance(f) == <<facade[f], req[f], net[f], pending[f]>>

\* C12 (checked under SpecPair): whatever calls are made on two instances,
\* in whatever order, every step changes the request descriptor, the
\* transport state and the response of at most one of them, and a response
\* an instance holds - the one its accessors read - is the response to its
\* own request.
C12_InstancesShareNothing ==
    [][\A f \in FacadeIds :
           /\ \A g \in FacadeIds \ {f} :
                  Instance(f)' # Instance(f) => Instance(g)' = Instance(g)
           /\ (facade'[f].res # Undefined =>
                  /\ facade'[f].res = net'[f].outcome
                  /\ Accessor("getResponseStatusCode", facade'[f].res).value.status
                         = net'[f].outcome.status)]_vars

\* C12 witness: both instances configured differently, dispatched and
\* resolved, each holding the response to its own request.
C12_Witness ==
    /\ facade["A"].res = Response(200)
    /\ facade["B"].res = Response(404)
    /\ req["A"].header # req["B"].header
    /\ req["A"].asserts # req["B"].asserts

\* a handler waiting for the store operation it issued
AtStore(r) ==
    http[r].pc \in {"find", "findById", "save", "updateOne", "updated",
                    "findByIdAndDelete"}

\* C13: the service that listens has connected to the store, and no
\* handler issues a store operation before the connection is established.
C13_ConnectsBeforeServing ==
    /\ (server.listening => server.connected)
    /\ \A r \in 1..MaxRequests : AtStore(r) => server.connected

\* C14: a POST /users whose body lacks a required field, so that save()
\* rejects, ends answered with the framework's error response; no record is
\* created and the service goes on serving.
C14_StoreFailureIsAnswered ==
    \A r \in 1..MaxRequests :
        /\ http[r].route = "POST /users"
        /\ ~Valid(http[r].doc)
        /\ Finished(r)
        => /\ http[r].pc = "done"
           /\ http[r].response.kind = "error"
           /\ http[r].response.status >= 500
           /\ Positions(store, http[r].doc.id) = {}
           /\ ~server.exited

\* the store after a write to the record under `id` with `body`
Written(st, id, body) ==
    [i \in 1..Len(st) |-> IF st[i].id = id THEN Updated(st[i], body) ELSE st[i]]

\* C15: each store operation of a PUT or DELETE /users/:id takes effect on
\* the store as it stands when the operation reaches it - the update
\* writes the body to the record under :id, the delete removes it - and a
\* PUT answers 200 with the record as it stands when its findById runs, a
\* DELETE with the record it removed.
C15_LastWriteWins ==
    [][\A r \in 1..MaxRequests :
           LET q == http[r] IN
           /\ (q.pc = "updateOne" /\ http'[r] # q =>
                  /\ http'[r].pc = "updated"
                  /\ store' = Written(store, q.id, q.body))
           /\ (q.pc = "updated" /\ http'[r] # q =>
                  /\ http'[r].pc = "done"
                  /\ http'[r].response.status = 200
                  /\ http'[r].response.kind = findById(store, q.id).kind
                  /\ http'[r].response.docs = findById(store, q.id).docs
                  /\ store' = store)
           /\ (q.pc = "findByIdAndDelete" /\ http'[r] # q =>
                  /\ http'[r].pc = "done"
                  /\ http'[r].response.status = 200
                  /\ http'[r].response.docs = findById(store, q.id).docs
                  /\ store' = Deleted(store, q.id))]_vars

\* C16 (checked under SpecBuild): setQueryParam(key, value) leaves the
\* query as setQueryParams({[key]: value}) would: the parameter named by
\* the key argument set to the value argument, the others as they were.
C16_SetQueryParamSetsKey ==
    [][\A f \in FacadeIds, k \in QueryKeys, v \in QueryValues :
           setQueryParam(f, k, v) =>
               req'[f].qs = Merge(req[f].qs, {<<k, v>>})]_vars

\* C17 (checked under SpecBuild): setType(type) and setAccept(type) leave
\* the body of the request as it was: a body set with setBody stays, and a
\* request without a body stays without one.
C17_TypeAndAcceptKeepBody ==
    [][\A f \in FacadeIds :
           \/ \E t \in TypeValues : setType(f, t)
           \/ \E t \in AcceptValues : setAccept(f, t)
           => req'[f].data = req[f].data]_vars

\* C18: this.res changes only in a step in which a done() of the instance
\* resolves; when end(callback) has dispatched the request and its callback
\* has been invoked with a response and no error, this.res, absent before,
\* is absent still unless a done() resumes in that very step: then
\* getRawResponse() returns undefined and every other accessor fails with
\* the uninitialized-response error.
C18_OnlyDonePopulates ==
    [][\A f \in FacadeIds :
           /\ (facade'[f].res # facade[f].res =>
                  /\ ret'.callee = f
                  /\ ret'.op = "done"
                  /\ ret'.kind = "resolved")
           /\ (/\ net'[f].dispatcher = "end"
               /\ net'[f].cbCount = 1
               /\ net'[f].cbErr = NoError
               /\ facade[f].res = Undefined
               /\ pending'[f] = pending[f]
               => /\ facade'[f].res = Undefined
                  /\ Accessor("getRawResponse", facade'[f].res).outcome = "return"
                  /\ Accessor("getRawResponse", facade'[f].res).value = Undefined
                  /\ \A a \in GuardedAccessors :
                         /\ Accessor(a, facade'[f].res).outcome = "throw"
                         /\ Accessor(a, facade'[f].res).error = UninitializedError)]_vars

\* C18 witness: the callback of end() invoked with a response, a done()
\* made afterwards rejected, and this.res absent.
C18_Witness ==
    /\ net["A"].dispatcher = "end"
    /\ net["A"].cbCount = 1
    /\ net["A"].cbErr = NoError
    /\ net["A"].cbRes.kind = "response"
    /\ ret.callee = "A"
    /\ ret.op = "done"
    /\ ret.kind = "rejected"
    /\ ret.error = EndTwiceError
    /\ facade["A"].res = Undefined

====
